---- MODULE Spec2Model ----
(***************************************************************************)
(* SpotiSwipe front end: the App step machine (App.jsx), the SongCard      *)
(* gesture recognizer and card media (SongCard.jsx) and the rows of the    *)
(* recommendations list (Recommendations.jsx).                              *)
(*                                                                         *)
(* React closures are modelled by what they capture: a call in flight      *)
(* carries the values of the render that made it (currentSongIndex,        *)
(* songs.length, the track id, sessionId), and its continuation uses those *)
(* captured values, not the current state.  One action is one run of the   *)
(* event loop between two suspension points (await, timer, user event),    *)
(* followed by the re-render and the effects it triggers.                  *)
(***************************************************************************)
EXTENDS Integers, Sequences, FiniteSets, Bags, TLC

\* ------------------------------------------------------------- bounds

\* Longest song queue the backend returns.
MaxLen == 2
\* Longest recommendations list the backend returns.
MaxRecs == 2
\* Asynchronous operations (requests, timers, animations) pending at once.
MaxPending == 2

\* ---------------------------------------------------------- constants

\* SongCard.jsx:252  if (swipe > 100)
SwipeThreshold == 100

\* GenreSelection.jsx:76  newSelected.size < 5
MaxSelected == 5

\* Number of genres offered: one more than can be selected, so that the cap
\* of toggleGenre is reached with a genre left to toggle.
MaxGenres == MaxSelected + 1

\* SongCard.jsx:26  audioRef.current.volume = 0.7, in tenths
AttachVolume == 7

Null == "null"
\* GenreSelection.jsx:60, 111: the genres offered, one button each.
Genres == 1..MaxGenres
SessionIds == {"s1"}
\* Track ids are positive integers; a queue or list of length n holds 1..n.
Queues == {[i \in 1..n |-> i] : n \in 0..MaxLen}
\* A recommendations list comes in either order of its track ids.
RecLists ==
  {[i \in 1..n |-> i] : n \in 0..MaxRecs} \cup {[i \in 1..n |-> n + 1 - i] : n \in 0..MaxRecs}
Offsets == {0 - 150, 0 - 100, 0, 100, 150}
\* The album art or preview of a track, as the card-detail call returns it;
\* NoMedia is null.  currentlyPlaying holds a track id the same way.
NoMedia == <<>>
MediaOf(track) == <<track>>
\* A row (SongItem) is keyed by its track id.
Rows == 1..MaxRecs

VARIABLES
  \* App.jsx state
  step, sessionId, songs, currentSongIndex, recommendations,
  \* calls in flight and timers, each with what its closure captured
  regCalls, startCalls, swipeCalls, recTimers, recCalls, detailCalls,
  \* SongCard.jsx state
  isDragging, isAnimating, isSwipeLoading, albumImage, previewUrl, imageLoaded,
  \* framer-motion: a drag gesture is physically in progress
  dragActive,
  \* the card's pose (x, rotate): "rest" is x = 0 and rotate = 0, "dragged" is
  \* where a drag has put it, "swiping" is the commit animation under way
  pose,
  \* animateSwipe invocations awaiting controls.start
  anims,
  \* Recommendations.jsx: currentlyPlaying and, per row (SongItem), whether
  \* previewUrl is set, whether the alert shows, and the audio element
  currentlyPlaying, rowPreview, rowAlert, rowAudio,
  \* rows awaiting their card-detail response, and rows awaiting audio.play()
  rowFetches, rowPlays,
  \* observation: the outcome the last step delivered (a response, or a drag
  \* release that did not commit), whether a commit trigger
  \* was fired while a commit animation of the mounted card was running, and
  \* how often handleSwipe has set step 'loading' for the current queue
  lastEvent, extraTrigger, loadingCount,
  \* GenreSelection.jsx: the set of selected genres
  selectedGenres,
  \* SongCard.jsx, the preview player: the isPlaying state; the audio element
  \* ("none" while it is not rendered); whether the canplay listener of the
  \* autoplay effect is waiting for its event; the element's volume in tenths;
  \* the number of fade-out intervals running, those started since the
  \* preview was attached (fades) and those started before (staleFades);
  \* whether the ended listener is attached to the element; the isLoading
  \* state
  isPlaying, cardAudio, canplay, volume, fades, staleFades, endedAttached, isLoading,
  \* which channels this specification follows: "flow", "card" (the flow and
  \* /get-song-detail of the active card), "rows" (the flow and the rows of
  \* the recommendations list), "genres" (the flow and the genre toggles) or
  \* "audio" (the active card with its detail call and its preview player);
  \* it never changes
  scope

appVars == <<step, sessionId, songs, currentSongIndex, recommendations>>
netVars == <<regCalls, startCalls, swipeCalls, recTimers, recCalls>>
gestureVars == <<isDragging, isAnimating, isSwipeLoading, dragActive, pose>>
mediaVars == <<albumImage, previewUrl, imageLoaded>>
\* The preview player but for the fade-out intervals a commit starts.
audioRest == <<isPlaying, cardAudio, canplay, volume, endedAttached, staleFades, isLoading>>
audioVars == <<audioRest, fades>>
cardVars == <<gestureVars, mediaVars, anims, detailCalls, extraTrigger, audioVars>>
rowVars == <<currentlyPlaying, rowPreview, rowAlert, rowAudio, rowFetches, rowPlays>>
vars == <<appVars, netVars, cardVars, rowVars, lastEvent, loadingCount, scope, selectedGenres>>

\* ------------------------------------------------------------ helpers

One(r) == SetToBag({r})

\* What a step delivered: the kind of call, the backend's result, the data it
\* carried, and the message the step passed to alert() ("" when it made none).
NoEvent == [kind |-> "none", result |-> "none", data |-> <<>>, alert |-> ""]
Event(k, r, d) == [kind |-> k, result |-> r, data |-> d, alert |-> ""]
Alert(k, r, d, msg) == [kind |-> k, result |-> r, data |-> d, alert |-> msg]

Pending ==
  regCalls + BagCardinality(startCalls) + BagCardinality(swipeCalls)
  + BagCardinality(recTimers) + BagCardinality(recCalls)
  + BagCardinality(anims) + BagCardinality(detailCalls)
  + BagCardinality(rowFetches) + BagCardinality(rowPlays) + fades + staleFades

\* The bag B with every record r replaced by f[r].
MapBag(B, f) ==
  LET T == {f[r] : r \in DOMAIN B}
  IN [t \in T |-> BagCardinality([r \in {x \in DOMAIN B : f[x] = t} |-> B[r]])]

\* What an unmounted SongCard instance left in flight: it completes, but its
\* state setters no longer reach a component.
Orphan(B) == MapBag(B, [r \in DOMAIN B |-> [r EXCEPT !.live = FALSE]])

\* Calls whose closure captured a queue that setSongs has replaced since.
Stale(B) == MapBag(B, [r \in DOMAIN B |-> [r EXCEPT !.cur = FALSE]])

LiveAnimCount ==
  BagCardinality([a \in {x \in DOMAIN anims : x.live} |-> anims[a]])

\* App.jsx:275  {step === 'swiping' && songs[currentSongIndex] && <SongCard .../>}
CardMounted(st, sg, idx) == st = "swiping" /\ idx < Len(sg)

ActiveTrack(sg, idx) == sg[idx + 1]

\* ------------------------------------------------------------- Init

InitState ==
  /\ step = "registration"
  /\ sessionId = Null
  /\ songs = <<>>
  /\ currentSongIndex = 0
  /\ recommendations = <<>>
  /\ regCalls = 0
  /\ startCalls = EmptyBag
  /\ swipeCalls = EmptyBag
  /\ recTimers = EmptyBag
  /\ recCalls = EmptyBag
  /\ detailCalls = EmptyBag
  /\ isDragging = FALSE
  /\ isAnimating = FALSE
  /\ isSwipeLoading = FALSE
  /\ albumImage = NoMedia
  /\ previewUrl = NoMedia
  /\ imageLoaded = FALSE
  /\ dragActive = FALSE
  /\ pose = "rest"
  /\ anims = EmptyBag
  /\ currentlyPlaying = NoMedia
  /\ rowPreview = [r \in Rows |-> FALSE]
  /\ rowAlert = [r \in Rows |-> FALSE]
  /\ rowAudio = [r \in Rows |-> "paused"]
  /\ rowFetches = EmptyBag
  /\ rowPlays = EmptyBag
  /\ lastEvent = NoEvent
  /\ extraTrigger = FALSE
  /\ loadingCount = 0
  /\ selectedGenres = {}
  /\ isPlaying = TRUE
  /\ cardAudio = "none"
  /\ canplay = FALSE
  /\ volume = AttachVolume
  /\ fades = 0
  /\ staleFades = 0
  /\ endedAttached = FALSE
  /\ isLoading = TRUE

\* The flow specification leaves the card-detail requests outstanding and does
\* not track them: no response of theirs is delivered, which the code allows
\* (there is no timeout), and card media never feeds back into the flow.  In
\* the same way it leaves the rows of the recommendations list untouched.
Init == InitState /\ scope = "flow"

InitCard == InitState /\ scope = "card"

InitRows == InitState /\ scope = "rows"

InitGenres == InitState /\ scope = "genres"

InitAudio == InitState /\ scope = "audio"

\* ------------------------------------------------------------ rendering

\* SongCard.jsx:67-94: the effect on [song?.track_id] issues the card-detail
\* request for the active candidate.
fetchSongDetails(track) ==
  IF scope \in {"card", "audio"}
    THEN detailCalls' = detailCalls (+) One([track |-> track, live |-> TRUE])
    ELSE UNCHANGED detailCalls

\* SongCard.jsx:349-356  {previewUrl && <audio ref={audioRef} src={previewUrl} .../>}
AudioRendered(url) == url # NoMedia

\* SongCard.jsx:10, 14, 96-123: the preview player of a freshly mounted
\* SongCard.  isPlaying and isLoading start true.  The effect with no dependencies runs once, after
\* the first render, and attaches the timeupdate and ended listeners only if
\* audioRef.current is set, that is, if that render had an audio element.  The
\* fade-out intervals of an unmounted card go on (nothing clears them) and
\* find audioRef.current null; they are not followed.
AudioFresh ==
  /\ isPlaying' = TRUE
  /\ cardAudio' = "none"
  /\ canplay' = FALSE
  /\ volume' = AttachVolume
  /\ fades' = 0
  /\ staleFades' = 0
  /\ endedAttached' = AudioRendered(previewUrl')
  /\ isLoading' = TRUE

\* SongCard.jsx:6-18: the state of a freshly mounted SongCard.  An unmounted
\* card is given the same values, so that the state is canonical.
CardFresh ==
  /\ isDragging' = FALSE
  /\ isAnimating' = FALSE
  /\ isSwipeLoading' = FALSE
  /\ albumImage' = NoMedia
  /\ previewUrl' = NoMedia
  /\ imageLoaded' = FALSE
  /\ dragActive' = FALSE
  /\ pose' = "rest"
  /\ extraTrigger' = FALSE
  /\ AudioFresh

\* The SongCard part of the re-render that follows a change of App state, with
\* the effects it runs.  newSong: the song prop is a new object (the cursor
\* moved or setSongs ran); newQueue: setSongs ran.
\*   unmount: the instance's state is gone, what it left in flight is orphaned;
\*   mount:   fresh state, then the effects of the first render;
\*   update:  SongCard.jsx:55-65 (reset effect on [song], which also pauses
\*            the audio element), 215-220 (isSwipeLoading reset on [song])
\*            and 67-94 (detail fetch when the track id changed).  previewUrl
\*            and isPlaying are not reset by any of them.
CardRender(newSong, newQueue) ==
  LET wasMounted == CardMounted(step, songs, currentSongIndex)
      mounted == CardMounted(step', songs', currentSongIndex')
      marked == IF newQueue THEN Stale(anims) ELSE anims
  IN IF ~mounted
       THEN /\ CardFresh
            /\ anims' = Orphan(marked)
            /\ detailCalls' = Orphan(detailCalls)
     ELSE IF ~wasMounted
       THEN /\ CardFresh
            /\ anims' = Orphan(marked)
            /\ fetchSongDetails(ActiveTrack(songs', currentSongIndex'))
     ELSE IF newSong
       THEN /\ imageLoaded' = FALSE
            /\ albumImage' = NoMedia
            /\ isSwipeLoading' = FALSE
            /\ pose' = "rest"
            /\ anims' = marked
            /\ cardAudio' = (IF cardAudio = "none" THEN "none" ELSE "paused")
            /\ isLoading' = TRUE
            /\ UNCHANGED <<isDragging, isAnimating, previewUrl, dragActive, extraTrigger,
                           isPlaying, canplay, volume, fades, staleFades, endedAttached>>
            /\ IF ActiveTrack(songs', currentSongIndex') # ActiveTrack(songs, currentSongIndex)
                 THEN fetchSongDetails(ActiveTrack(songs', currentSongIndex'))
                 ELSE UNCHANGED detailCalls
     ELSE UNCHANGED cardVars

\* Recommendations.jsx:6-11, 171: the state of a freshly mounted list.  What an
\* unmounted list left in flight finds no audio element and no component
\* (audioRef.current is null, the setters do nothing), so it is dropped.
RowsFresh ==
  /\ currentlyPlaying' = NoMedia
  /\ rowPreview' = [r \in Rows |-> FALSE]
  /\ rowAlert' = [r \in Rows |-> FALSE]
  /\ rowAudio' = [r \in Rows |-> "paused"]
  /\ rowFetches' = EmptyBag
  /\ rowPlays' = EmptyBag

\* The Recommendations part of the re-render (App.jsx:300-308).  Rows are keyed
\* by track id (Recommendations.jsx:189-191): a replaced list keeps the rows
\* whose track ids it still holds.
RowsRender ==
  IF step' # "recommendations"
    THEN RowsFresh
  ELSE IF step # "recommendations"
    THEN RowsFresh
  ELSE LET kept == {recommendations'[i] : i \in 1..Len(recommendations')}
       IN /\ currentlyPlaying' =
               IF currentlyPlaying # NoMedia /\ currentlyPlaying[1] \in kept
                 THEN currentlyPlaying ELSE NoMedia
          /\ rowPreview' = [r \in Rows |-> r \in kept /\ rowPreview[r]]
          /\ rowAlert' = [r \in Rows |-> r \in kept /\ rowAlert[r]]
          /\ rowAudio' = [r \in Rows |-> IF r \in kept THEN rowAudio[r] ELSE "paused"]
          /\ rowFetches' = [c \in {x \in DOMAIN rowFetches : x.row \in kept} |-> rowFetches[c]]
          /\ rowPlays' = [c \in {x \in DOMAIN rowPlays : x.row \in kept} |-> rowPlays[c]]

\* GenreSelection.jsx:47 and App.jsx:264-273: GenreSelection is mounted while
\* step is genres and keeps its selection across re-renders; a newly mounted
\* one starts with the empty set.
GenresRender ==
  selectedGenres' = IF step = "genres" /\ step' = "genres" THEN selectedGenres ELSE {}

Render(newSong, newQueue) ==
  CardRender(newSong, newQueue) /\ RowsRender /\ GenresRender

\* ------------------------------------------------------------ App.jsx

\* App.jsx:211-223
handleRestart ==
  /\ step' = "genres"
  /\ sessionId' = Null
  /\ songs' = <<>>
  /\ currentSongIndex' = 0
  /\ recommendations' = <<>>

\* LoginForm submits the registration form (GenreSelection.jsx:181-191, 272:
\* the submit button is disabled while onSubmit is awaited) and
\* handleRegistration runs up to its fetch (App.jsx:37-43).
SubmitRegistration ==
  /\ step = "registration"
  /\ regCalls = 0
  /\ Pending < MaxPending
  /\ regCalls' = 1
  /\ lastEvent' = NoEvent
  /\ UNCHANGED <<appVars, startCalls, swipeCalls, recTimers, recCalls, cardVars, rowVars,
                 loadingCount, scope, selectedGenres>>

\* App.jsx:45-70: the registration response; sid = Null stands for a failure
\* (non-success status or network error).
RegistrationResponse(sid) ==
  /\ regCalls > 0
  /\ regCalls' = regCalls - 1
  /\ IF sid # Null
       THEN /\ sessionId' = sid
            /\ step' = "genres"
            /\ lastEvent' = Event("registration", "ok", <<>>)
            /\ UNCHANGED <<songs, currentSongIndex, recommendations>>
       ELSE /\ lastEvent' = Alert("registration", "fail", <<>>, "Registration failed")
            /\ UNCHANGED appVars
  /\ Render(FALSE, FALSE)
  /\ UNCHANGED <<startCalls, swipeCalls, recTimers, recCalls, loadingCount, scope>>

\* GenreSelection.jsx:71-81: toggleGenre as a function of the selected set.
Toggled(selected, genre) ==
  IF genre \in selected THEN selected \ {genre}
  ELSE IF Cardinality(selected) < MaxSelected THEN selected \cup {genre}
  ELSE selected

\* GenreSelection.jsx:116: a genre button is clicked.
toggleGenre(genre) ==
  /\ scope = "genres"
  /\ step = "genres"
  /\ selectedGenres' = Toggled(selectedGenres, genre)
  /\ lastEvent' = NoEvent
  /\ UNCHANGED <<appVars, netVars, cardVars, rowVars, loadingCount, scope>>

\* Mutant of SubmitEnabled: the button is never disabled.
SubmitEnabledAlways(selected) == TRUE

\* GenreSelection.jsx:136  disabled={selectedGenres.size === 0}
SubmitEnabled(selected) == Cardinality(selected) # 0

\* GenreSelection.jsx:134-136 and App.jsx:73-89: the submit button, enabled
\* whenever a genre is selected, calls handleStart, which runs up to its fetch.
\* The button is not disabled while a request is in flight.  Where the
\* selection is not followed, a non-empty one is taken as given.
SubmitGenres ==
  /\ step = "genres"
  /\ scope = "genres" => SubmitEnabled(selectedGenres)
  /\ Pending < MaxPending
  /\ startCalls' = startCalls (+) One([sid |-> sessionId])
  /\ lastEvent' = IF scope = "genres"
                    THEN Event("submit", "sent", <<Cardinality(selectedGenres)>>)
                    ELSE NoEvent
  /\ UNCHANGED <<appVars, regCalls, swipeCalls, recTimers, recCalls, cardVars, rowVars,
                 loadingCount, scope, selectedGenres>>

\* Mutant of StartThrows: the outcome of the call is not looked at.
StartThrowsNever(ok) == FALSE

\* App.jsx:82-93: fetch rejects, or  if (!response.ok) throw
StartThrows(ok) == ~ok

\* App.jsx:91-108: the start-session response, a success with the queue q or
\* a failure.  The cursor is not written.
StartResponse(c, ok, q) ==
  /\ BagIn(c, startCalls)
  /\ startCalls' = startCalls (-) One(c)
  /\ IF ~StartThrows(ok)
       THEN /\ songs' = q
            /\ step' = "swiping"
            /\ lastEvent' = Event("start", IF ok THEN "ok" ELSE "fail", q)
            /\ loadingCount' = 0
            /\ swipeCalls' = Stale(swipeCalls)
            /\ UNCHANGED <<sessionId, currentSongIndex, recommendations>>
            /\ Render(TRUE, TRUE)
       ELSE /\ lastEvent' = Alert("start", "fail", <<>>, "Failed to fetch songs")
            /\ UNCHANGED <<appVars, loadingCount, swipeCalls>>
            /\ Render(FALSE, FALSE)
  /\ UNCHANGED <<regCalls, recTimers, recCalls, scope>>

\* App.jsx:111-137: handleSwipe from its entry to its fetch, run with the
\* values its closure captured.  A song without a track id throws before the
\* fetch (line 117); the backend's queues hold none.
handleSwipe(a) ==
  IF a.idx >= a.len
    THEN UNCHANGED swipeCalls
    ELSE swipeCalls' = swipeCalls (+)
           One([idx |-> a.idx, len |-> a.len, track |-> a.track, sid |-> a.sid,
                liked |-> a.liked, cur |-> a.cur])

\* Mutant of SwipeThrows: the status of the response is not looked at.
SwipeThrowsNever(outcome) == FALSE

\* App.jsx:129-142: outcomes of the POST /api/swipe call.  fetch rejects on a
\* network error; a response whose ok flag is false makes handleSwipe throw.
SwipeOutcomes == {"ok", "status", "network"}

\* App.jsx:129-142  await fetch(...) rejects, or  if (!response.ok) throw
SwipeThrows(outcome) == outcome # "ok"

\* App.jsx:129-162: the swipe-commit call settles.  A failure is caught and
\* alerted ("Error recording your choice: " followed by the error's message)
\* and nothing else is set.  On success the cursor is set
\* to the captured index plus one, and when that reaches the captured queue
\* length the step becomes loading and getRecommendations is scheduled.
SwipeResponse(c, outcome) ==
  /\ BagIn(c, swipeCalls)
  /\ swipeCalls' = swipeCalls (-) One(c)
  /\ IF SwipeThrows(outcome)
       THEN /\ lastEvent' = Alert("swipe", IF outcome = "ok" THEN "ok" ELSE "fail", <<c.idx>>,
                                  "Error recording your choice")
            /\ UNCHANGED <<appVars, recTimers, loadingCount>>
            /\ Render(FALSE, FALSE)
       ELSE /\ lastEvent' = Event("swipe", IF outcome = "ok" THEN "ok" ELSE "fail", <<c.idx>>)
            /\ currentSongIndex' = c.idx + 1
            /\ IF c.idx + 1 >= c.len
                 THEN /\ step' = "loading"
                      /\ recTimers' = recTimers (+) One([sid |-> c.sid])
                      /\ loadingCount' = loadingCount + 1
                 ELSE UNCHANGED <<step, recTimers, loadingCount>>
            /\ UNCHANGED <<sessionId, songs, recommendations>>
            /\ Render(currentSongIndex' # currentSongIndex, FALSE)
  /\ UNCHANGED <<regCalls, startCalls, recCalls, scope>>

\* Mutant of ValidRecommendations: the length of the list is not looked at.
ValidRecommendationsAnyList(kind, list) == kind = "list"

\* App.jsx:183  if (!data.recommendations?.length) throw
ValidRecommendations(kind, list) == kind = "list" /\ Len(list) > 0

\* App.jsx:149, 165-175: the settling timer fires and getRecommendations runs
\* up to its fetch; without a session id it throws, alerts and restarts.
TimerFires(t) ==
  /\ BagIn(t, recTimers)
  /\ recTimers' = recTimers (-) One(t)
  /\ IF t.sid = Null
       THEN /\ lastEvent' = Alert("recommendations", "nosession", <<>>,
                                  "Failed to get recommendations: No active session")
            /\ handleRestart
            /\ loadingCount' = 0
            /\ swipeCalls' = Stale(swipeCalls)
            /\ UNCHANGED recCalls
            /\ Render(TRUE, TRUE)
       ELSE /\ recCalls' = recCalls (+) One(t)
            /\ lastEvent' = NoEvent
            /\ UNCHANGED <<appVars, loadingCount, swipeCalls>>
            /\ Render(FALSE, FALSE)
  /\ UNCHANGED <<regCalls, startCalls, scope>>

\* Mutant of setRecommendations: the list is stored back to front.
setRecommendationsReversed(list) == [i \in 1..Len(list) |-> list[Len(list) + 1 - i]]

\* App.jsx:194  setRecommendations(data.recommendations)
setRecommendations(list) == list

\* What the backend answered: "fail", "missing", "empty" or "ok".
RecResult(kind, list) == IF kind = "list" THEN (IF list = <<>> THEN "empty" ELSE "ok") ELSE kind

\* App.jsx:177-208: the recommendations response: kind is "fail" (non-success
\* status or network error), "missing" (no recommendations field) or "list".
RecommendationsResponse(c, kind, list) ==
  /\ BagIn(c, recCalls)
  /\ recCalls' = recCalls (-) One(c)
  /\ IF kind # "fail" /\ ValidRecommendations(kind, list)
       THEN /\ lastEvent' = Event("recommendations", RecResult(kind, list), list)
            /\ recommendations' = setRecommendations(list)
            /\ step' = "recommendations"
            /\ UNCHANGED <<sessionId, songs, currentSongIndex, loadingCount, swipeCalls>>
            /\ Render(FALSE, FALSE)
       ELSE /\ lastEvent' = Alert("recommendations", RecResult(kind, list), list,
                                  IF kind = "fail"
                                    THEN "Failed to get recommendations: Failed to get recommendations"
                                    ELSE "Failed to get recommendations: Invalid recommendations data received")
            /\ handleRestart
            /\ loadingCount' = 0
            /\ swipeCalls' = Stale(swipeCalls)
            /\ Render(TRUE, TRUE)
  /\ UNCHANGED <<regCalls, startCalls, recTimers, scope>>

\* Recommendations.jsx:200-206: the Start Over button calls onRestart.
StartOver ==
  /\ step = "recommendations"
  /\ handleRestart
  /\ loadingCount' = 0
  /\ swipeCalls' = Stale(swipeCalls)
  /\ lastEvent' = Event("restart", "ok", <<>>)
  /\ Render(TRUE, TRUE)
  /\ UNCHANGED <<regCalls, startCalls, recTimers, recCalls, scope>>

\* --------------------------------------------------------- SongCard.jsx

\* SongCard.jsx:168-177: with an audio element, animateSwipe starts an
\* interval of 50 ms that fades the volume out.
fadeOutBegin ==
  fades' = IF scope = "audio" /\ cardAudio # "none" THEN fades + 1 ELSE fades

\* Mutant of animateSwipeBegin: setIsAnimating(true) is left out.
animateSwipeBeginNoFlag(direction) ==
  /\ isAnimating' = isAnimating
  /\ isSwipeLoading' = TRUE
  /\ fadeOutBegin
  /\ pose' = "swiping"
  /\ anims' = anims (+)
       One([liked |-> direction = "like", idx |-> currentSongIndex, len |-> Len(songs),
            track |-> ActiveTrack(songs, currentSongIndex), sid |-> sessionId,
            live |-> TRUE, cur |-> TRUE])

\* SongCard.jsx:164-166, 179-196: animateSwipe past its guard, up to its await
\* of controls.start.  onSwipe is the handleSwipe of the render that made this
\* closure: it holds that render's cursor, queue and session id.
animateSwipeBegin(direction) ==
  /\ isAnimating' = TRUE
  /\ isSwipeLoading' = TRUE
  /\ fadeOutBegin
  /\ pose' = "swiping"
  /\ anims' = anims (+)
       One([liked |-> direction = "like", idx |-> currentSongIndex, len |-> Len(songs),
            track |-> ActiveTrack(songs, currentSongIndex), sid |-> sessionId,
            live |-> TRUE, cur |-> TRUE])

\* SongCard.jsx:161-162  if (isAnimating || !cardRef.current) return
animateSwipe(direction) ==
  IF isAnimating
    THEN UNCHANGED <<isAnimating, isSwipeLoading, anims, pose, fades>>
    ELSE animateSwipeBegin(direction)

\* A commit trigger fired while a commit animation of this card is running.
NoteTrigger == extraTrigger' = (extraTrigger \/ LiveAnimCount > 0)

\* SongCard.jsx:408-425: the like and dislike buttons, disabled while animating.
ClickButton(direction) ==
  /\ CardMounted(step, songs, currentSongIndex)
  /\ isAnimating \/ Pending < MaxPending
  /\ IF ~isAnimating
       THEN animateSwipe(direction)
       ELSE UNCHANGED <<isAnimating, isSwipeLoading, anims, pose, fades>>
  /\ NoteTrigger
  /\ lastEvent' = NoEvent
  /\ UNCHANGED <<appVars, netVars, isDragging, dragActive, mediaVars, audioRest, detailCalls, rowVars,
                 loadingCount, scope, selectedGenres>>

\* Mutant of KeyDirection: the two arrow keys are swapped.
KeyDirectionSwapped(key) == IF key = "ArrowLeft" THEN "like" ELSE "dislike"

\* SongCard.jsx:129-133: ArrowLeft dislikes, ArrowRight likes.
KeyDirection(key) == IF key = "ArrowLeft" THEN "dislike" ELSE "like"

\* SongCard.jsx:125-138: handleKeyDown for ArrowLeft and ArrowRight.
handleKeyDown(key) ==
  /\ CardMounted(step, songs, currentSongIndex)
  /\ isDragging \/ isAnimating \/ Pending < MaxPending
  /\ IF isDragging \/ isAnimating
       THEN UNCHANGED <<isAnimating, isSwipeLoading, anims, pose, fades>>
       ELSE animateSwipe(KeyDirection(key))
  /\ NoteTrigger
  /\ lastEvent' = NoEvent
  /\ UNCHANGED <<appVars, netVars, isDragging, dragActive, mediaVars, audioRest, detailCalls, rowVars,
                 loadingCount, scope, selectedGenres>>

\* SongCard.jsx:241, 246, 260-264: a drag starts and moves the card (x follows
\* the pointer, onDrag sets rotate); drag is off while animating.
onDragStart ==
  /\ CardMounted(step, songs, currentSongIndex)
  /\ ~isAnimating
  /\ ~dragActive
  /\ isDragging' = TRUE
  /\ dragActive' = TRUE
  /\ pose' = "dragged"
  /\ lastEvent' = NoEvent
  /\ UNCHANGED <<appVars, netVars, isAnimating, isSwipeLoading, mediaVars, audioVars, anims,
                 detailCalls, extraTrigger, rowVars, loadingCount, scope, selectedGenres>>

\* Mutant of Commits: a release at the threshold commits as well.
CommitsAtThreshold(offset) ==
  (IF offset < 0 THEN 0 - offset ELSE offset) >= SwipeThreshold

\* SongCard.jsx:251-252  const swipe = Math.abs(offset.x); if (swipe > 100)
Commits(offset) ==
  (IF offset < 0 THEN 0 - offset ELSE offset) > SwipeThreshold

\* SongCard.jsx:253  offset.x > 0 ? 'like' : 'dislike'
DragDirection(offset) == IF offset > 0 THEN "like" ELSE "dislike"

\* SongCard.jsx:247-257: the drag is released at offset.x = offset.  While
\* animating the handler returns at once; otherwise a release beyond the
\* threshold commits and any other starts the animation back to x = 0,
\* rotate = 0.
onDragEnd(offset) ==
  /\ dragActive
  /\ isAnimating \/ ~Commits(offset) \/ Pending < MaxPending
  /\ dragActive' = FALSE
  /\ IF isAnimating
       THEN UNCHANGED <<isDragging, isAnimating, isSwipeLoading, anims, pose, fades>>
       ELSE /\ isDragging' = FALSE
            /\ IF Commits(offset)
                 THEN animateSwipe(DragDirection(offset))
                 ELSE /\ pose' = "rest"
                      /\ UNCHANGED <<isAnimating, isSwipeLoading, anims, fades>>
  /\ IF Commits(offset) THEN NoteTrigger ELSE UNCHANGED extraTrigger
  /\ lastEvent' = IF Commits(offset) THEN NoEvent ELSE Event("release", "back", <<>>)
  /\ UNCHANGED <<appVars, netVars, mediaVars, audioRest, detailCalls, rowVars, loadingCount, scope,
                 selectedGenres>>

\* SongCard.jsx:188-212: controls.start settles.  When it resolves, onSwipe is
\* called (not awaited) and runs handleSwipe up to its fetch; when it throws,
\* the catch block runs instead.  Either way controls.set puts the card back
\* at x = 0, rotate = 0 (lines 200, 208) and the finally block clears
\* isAnimating, while the swipe-commit request may still be in flight.
AnimationSettles(a, throws) ==
  /\ BagIn(a, anims)
  /\ anims' = anims (-) One(a)
  /\ IF throws THEN UNCHANGED swipeCalls ELSE handleSwipe(a)
  /\ IF a.live
       THEN /\ isAnimating' = FALSE
            /\ pose' = "rest"
            /\ extraTrigger' = FALSE
       ELSE UNCHANGED <<isAnimating, pose, extraTrigger>>
  /\ lastEvent' = Event("animation", IF throws THEN "throws" ELSE "done", <<a.idx>>)
  /\ UNCHANGED <<appVars, regCalls, startCalls, recTimers, recCalls, isDragging,
                 isSwipeLoading, dragActive, mediaVars, audioVars, detailCalls, rowVars,
                 loadingCount, scope, selectedGenres>>

\* SongCard.jsx:22-53, 349-356: the re-render after setPreviewUrl and the
\* autoplay effect on [previewUrl].  Without a preview the audio element is
\* not rendered (a removed media element is paused).  With a new preview the
\* element, created now or kept with a new src, is paused by the cleanup of
\* the previous run or by the load, isLoading is set, its volume is set to
\* 0.7 and a canplay listener is attached that will call play().  The effect with no
\* dependencies does not run again: a listener it attached stays on an
\* element that is kept, a new element has none.  Nothing here clears a
\* fade-out interval: those running go on as intervals started before the
\* attach.
AudioOnPreview ==
  IF scope # "audio" \/ previewUrl' = previewUrl
    THEN UNCHANGED audioVars
  ELSE IF ~AudioRendered(previewUrl')
    THEN /\ cardAudio' = "none"
         /\ canplay' = FALSE
         /\ volume' = AttachVolume
         /\ endedAttached' = FALSE
         /\ UNCHANGED <<isPlaying, fades, staleFades, isLoading>>
  ELSE /\ cardAudio' = "paused"
       /\ canplay' = TRUE
       /\ volume' = AttachVolume
       /\ endedAttached' = (endedAttached /\ AudioRendered(previewUrl))
       /\ staleFades' = staleFades + fades
       /\ fades' = 0
       /\ isLoading' = TRUE
       /\ UNCHANGED isPlaying

\* SongCard.jsx:79-90: the card-detail response for the track the request was
\* made for.  Nothing compares that track with the active candidate.
DetailResponse(c, ok, hasImage, hasPreview) ==
  /\ BagIn(c, detailCalls)
  /\ detailCalls' = detailCalls (-) One(c)
  /\ IF c.live
       THEN /\ albumImage' = IF ok /\ hasImage THEN MediaOf(c.track) ELSE NoMedia
            /\ previewUrl' = IF ok /\ hasPreview THEN MediaOf(c.track) ELSE NoMedia
            /\ imageLoaded' = TRUE
            /\ AudioOnPreview
       ELSE UNCHANGED <<mediaVars, audioVars>>
  /\ lastEvent' = Event("detail", IF ok THEN "ok" ELSE "fail", <<c.track>>)
  /\ UNCHANGED <<appVars, netVars, gestureVars, anims, extraTrigger, rowVars,
                 loadingCount, scope, selectedGenres>>

\* -------------------------------------------------- Recommendations.jsx

RowShown(r) ==
  /\ scope = "rows"
  /\ step = "recommendations"
  /\ \E i \in 1..Len(recommendations) : recommendations[i] = r

\* The effect on [isPlaying] of each row (Recommendations.jsx:37-41) after
\* currentlyPlaying changed to playing: the row that stopped being the
\* current one pauses its audio.  audio is the state of the elements before.
PauseEffect(audio, playing) ==
  IF currentlyPlaying # NoMedia /\ currentlyPlaying # playing
    THEN [audio EXCEPT ![currentlyPlaying[1]] = "paused"]
    ELSE audio

\* Recommendations.jsx:173-179: stopCurrentAudio pauses every audio element of
\* the document; the SongCard is not mounted in this step.
stopCurrentAudio(audio) == [r \in Rows |-> "paused"]

\* Recommendations.jsx:43-57, 77-81: togglePlay up to its first await.
togglePlay(r) ==
  /\ RowShown(r)
  /\ lastEvent' = NoEvent
  /\ IF currentlyPlaying = MediaOf(r)
       THEN /\ rowAudio' = [rowAudio EXCEPT ![r] = "paused"]
            /\ currentlyPlaying' = NoMedia
            /\ UNCHANGED <<rowFetches, rowPlays>>
       ELSE /\ Pending < MaxPending
            /\ currentlyPlaying' = NoMedia
            /\ IF ~rowPreview[r]
                 THEN /\ rowAudio' = stopCurrentAudio(rowAudio)
                      /\ rowFetches' = rowFetches (+) One([row |-> r])
                      /\ UNCHANGED rowPlays
                 ELSE /\ rowAudio' = [stopCurrentAudio(rowAudio) EXCEPT ![r] = "playing"]
                      /\ rowPlays' = rowPlays (+) One([row |-> r, first |-> FALSE])
                      /\ UNCHANGED rowFetches
  /\ UNCHANGED <<appVars, netVars, cardVars, rowPreview, rowAlert, loadingCount, scope, selectedGenres>>

\* Recommendations.jsx:59-76: the row's card-detail response.  With a preview
\* the audio element is given its source and play() is called: the element
\* plays from here on, and the promise is awaited.  Nothing is paused first.
RowDetailResponse(c, ok, hasPreview) ==
  /\ scope = "rows"
  /\ BagIn(c, rowFetches)
  /\ rowFetches' = rowFetches (-) One(c)
  /\ lastEvent' = NoEvent
  /\ IF ok /\ hasPreview
       THEN /\ rowPreview' = [rowPreview EXCEPT ![c.row] = TRUE]
            /\ rowAudio' = [rowAudio EXCEPT ![c.row] = "playing"]
            /\ rowPlays' = rowPlays (+) One([row |-> c.row, first |-> TRUE])
            /\ UNCHANGED rowAlert
       ELSE /\ rowAlert' = [rowAlert EXCEPT ![c.row] = TRUE]
            /\ UNCHANGED <<rowPreview, rowAudio, rowPlays>>
  /\ UNCHANGED <<appVars, netVars, cardVars, currentlyPlaying, loadingCount, scope, selectedGenres>>

\* Recommendations.jsx:70-75, 80-84: the promise of audio.play() settles.  It
\* resolves only when the element is still playing (a pause() in between
\* rejects it); then setCurrentlyPlaying runs and the rows re-render.
PlaySettles(c, resolved) ==
  /\ scope = "rows"
  /\ BagIn(c, rowPlays)
  /\ rowPlays' = rowPlays (-) One(c)
  /\ lastEvent' = NoEvent
  /\ IF resolved
       THEN /\ rowAudio[c.row] = "playing"
            /\ currentlyPlaying' = MediaOf(c.row)
            /\ rowAudio' = PauseEffect(rowAudio, MediaOf(c.row))
            /\ UNCHANGED rowAlert
       ELSE /\ rowAudio' = [rowAudio EXCEPT ![c.row] = "paused"]
            /\ rowAlert' = [rowAlert EXCEPT ![c.row] = @ \/ c.first]
            /\ UNCHANGED currentlyPlaying
  /\ UNCHANGED <<appVars, netVars, cardVars, rowPreview, rowFetches, loadingCount, scope, selectedGenres>>

\* Recommendations.jsx:23-26: a row's audio reaches its end.
RowEnded(r) ==
  /\ RowShown(r)
  /\ rowAudio[r] = "playing"
  /\ currentlyPlaying' = NoMedia
  /\ rowAudio' = PauseEffect([rowAudio EXCEPT ![r] = "paused"], NoMedia)
  /\ lastEvent' = NoEvent
  /\ UNCHANGED <<appVars, netVars, cardVars, rowPreview, rowAlert, rowFetches, rowPlays,
                 loadingCount, scope, selectedGenres>>

\* ------------------------------------------- SongCard.jsx, the preview

\* CanPlay without the setIsPlaying(false) of the catch block: a rejected
\* play() leaves isPlaying as it was.
CanPlayKeepsFlag(resolved) ==
  /\ scope = "audio"
  /\ canplay
  /\ cardAudio # "none"
  /\ resolved \/ cardAudio = "paused"
  /\ canplay' = FALSE
  /\ cardAudio' = (IF resolved THEN "playing" ELSE cardAudio)
  /\ isPlaying' = (resolved \/ isPlaying)
  /\ isLoading' = FALSE
  /\ lastEvent' = Event("canplay", IF resolved THEN "ok" ELSE "fail", <<>>)
  /\ UNCHANGED <<appVars, netVars, gestureVars, mediaVars, anims, detailCalls, extraTrigger,
                 volume, fades, staleFades, endedAttached, rowVars, loadingCount, scope,
                 selectedGenres>>

\* SongCard.jsx:28-42: the audio element fires canplay and the listener of
\* the autoplay effect calls play(), which resolves or is rejected (the
\* browser's autoplay policy); either way isLoading is cleared.  play() on
\* an element that is already playing, started by the play button, resolves:
\* a rejection leaves a paused element.
CanPlay(resolved) ==
  /\ scope = "audio"
  /\ canplay
  /\ cardAudio # "none"
  /\ resolved \/ cardAudio = "paused"
  /\ canplay' = FALSE
  /\ cardAudio' = (IF resolved THEN "playing" ELSE cardAudio)
  /\ isPlaying' = resolved
  /\ isLoading' = FALSE
  /\ lastEvent' = Event("canplay", IF resolved THEN "ok" ELSE "fail", <<>>)
  /\ UNCHANGED <<appVars, netVars, gestureVars, mediaVars, anims, detailCalls, extraTrigger,
                 volume, fades, staleFades, endedAttached, rowVars, loadingCount, scope,
                 selectedGenres>>

\* SongCard.jsx:104-111: handleEnded, where it is attached: setIsPlaying(false),
\* then currentTime = 0 and play().  Where it is not, the element that has
\* reached its end is paused and nothing else happens.
handleEnded ==
  IF endedAttached
    THEN /\ isPlaying' = FALSE
         /\ cardAudio' = "playing"
    ELSE /\ cardAudio' = "paused"
         /\ UNCHANGED isPlaying

\* The preview of the card plays to its end.
CardEnded ==
  /\ scope = "audio"
  /\ cardAudio = "playing"
  /\ handleEnded
  /\ lastEvent' = Event("ended", "card", <<>>)
  /\ UNCHANGED <<appVars, netVars, gestureVars, mediaVars, anims, detailCalls, extraTrigger,
                 canplay, volume, fades, staleFades, endedAttached, isLoading, rowVars,
                 loadingCount, scope,
                 selectedGenres>>

\* SongCard.jsx:140-153, 312-325: the play button, rendered with a preview.
\* togglePlay pauses when isPlaying is true and calls play() when it is false,
\* whatever the element is doing; then isPlaying is negated, unless play()
\* was rejected.
cardTogglePlay(resolved) ==
  /\ scope = "audio"
  /\ CardMounted(step, songs, currentSongIndex)
  /\ AudioRendered(previewUrl)
  /\ cardAudio # "none"
  /\ IF isPlaying
       THEN /\ cardAudio' = "paused"
            /\ isPlaying' = FALSE
       ELSE IF resolved
         THEN /\ cardAudio' = "playing"
              /\ isPlaying' = TRUE
         ELSE UNCHANGED <<cardAudio, isPlaying>>
  /\ lastEvent' = Event("toggle", cardAudio, <<>>)
  /\ UNCHANGED <<appVars, netVars, gestureVars, mediaVars, anims, detailCalls, extraTrigger,
                 canplay, volume, fades, staleFades, endedAttached, isLoading, rowVars,
                 loadingCount, scope,
                 selectedGenres>>

\* SongCard.jsx:170  if (audioRef.current.volume > 0.1).  The volume goes
\* down from 0.7 in steps of 0.1 in double precision: after six steps it is
\* 0.10000000000000003, which is still above 0.1, so a seventh step takes it
\* to (nearly) 0 before the interval stops.
FadeLowers(v) == v > 0

\* SongCard.jsx:169-176: one tick of a fade-out interval.  It reads
\* audioRef.current without a check: with no audio element it throws, and the
\* interval is not cleared.  stale: the interval was started before the
\* preview now attached was attached.
FadeTick(stale) ==
  /\ scope = "audio"
  /\ IF stale THEN staleFades > 0 ELSE fades > 0
  /\ IF cardAudio = "none"
       THEN /\ lastEvent' = Event("fade", "released", <<>>)
            /\ UNCHANGED <<cardAudio, volume, fades, staleFades>>
     ELSE IF FadeLowers(volume)
       THEN /\ lastEvent' = Event("fade", "lower", <<>>)
            /\ volume' = volume - 1
            /\ UNCHANGED <<cardAudio, fades, staleFades>>
     ELSE /\ lastEvent' = Event("fade", "pause", <<>>)
          /\ fades' = (IF stale THEN fades ELSE fades - 1)
          /\ staleFades' = (IF stale THEN staleFades - 1 ELSE staleFades)
          /\ cardAudio' = "paused"
          /\ UNCHANGED volume
  /\ UNCHANGED <<appVars, netVars, gestureVars, mediaVars, anims, detailCalls, extraTrigger,
                 isPlaying, canplay, endedAttached, isLoading, rowVars, loadingCount, scope,
                 selectedGenres>>

\* ------------------------------------------------------- specification

Next ==
  \/ SubmitRegistration
  \/ \E sid \in SessionIds \cup {Null} : RegistrationResponse(sid)
  \/ SubmitGenres
  \/ \E c \in DOMAIN startCalls : \E q \in Queues : StartResponse(c, TRUE, q)
  \/ \E c \in DOMAIN startCalls : StartResponse(c, FALSE, <<>>)
  \/ \E d \in {"like", "dislike"} : ClickButton(d)
  \/ \E k \in {"ArrowLeft", "ArrowRight"} : handleKeyDown(k)
  \/ onDragStart
  \/ \E o \in Offsets : onDragEnd(o)
  \/ \E a \in DOMAIN anims : \E throws \in BOOLEAN : AnimationSettles(a, throws)
  \/ \E c \in DOMAIN swipeCalls : \E outcome \in SwipeOutcomes : SwipeResponse(c, outcome)
  \/ \E t \in DOMAIN recTimers : TimerFires(t)
  \/ \E c \in DOMAIN recCalls : \E l \in RecLists : RecommendationsResponse(c, "list", l)
  \/ \E c \in DOMAIN recCalls : \E k \in {"fail", "missing"} : RecommendationsResponse(c, k, <<>>)
  \/ StartOver

NextCard ==
  \/ Next
  \/ \E c \in DOMAIN detailCalls : \E ok, hasImage, hasPreview \in BOOLEAN :
       DetailResponse(c, ok, hasImage, hasPreview)

NextRows ==
  \/ Next
  \/ \E r \in Rows : togglePlay(r)
  \/ \E c \in DOMAIN rowFetches : \E ok, hasPreview \in BOOLEAN : RowDetailResponse(c, ok, hasPreview)
  \/ \E c \in DOMAIN rowPlays : \E resolved \in BOOLEAN : PlaySettles(c, resolved)
  \/ \E r \in Rows : RowEnded(r)

\* The flow: App.jsx and the gesture recognizer of SongCard.jsx.
Spec == Init /\ [][Next]_vars

\* The flow together with the card-detail channel of SongCard.jsx.
SpecCard == InitCard /\ [][NextCard]_vars

\* The flow together with the rows of Recommendations.jsx.
SpecRows == InitRows /\ [][NextRows]_vars

NextGenres ==
  \/ SubmitRegistration
  \/ \E sid \in SessionIds \cup {Null} : RegistrationResponse(sid)
  \/ \E g \in Genres : toggleGenre(g)
  \/ SubmitGenres
  \/ \E c \in DOMAIN startCalls : \E q \in Queues : StartResponse(c, TRUE, q)
  \/ \E c \in DOMAIN startCalls : StartResponse(c, FALSE, <<>>)
  \/ \E d \in {"like", "dislike"} : ClickButton(d)
  \/ \E a \in DOMAIN anims : \E throws \in BOOLEAN : AnimationSettles(a, throws)
  \/ \E c \in DOMAIN swipeCalls : \E outcome \in SwipeOutcomes : SwipeResponse(c, outcome)
  \/ \E t \in DOMAIN recTimers : TimerFires(t)
  \/ \E c \in DOMAIN recCalls : \E l \in RecLists : RecommendationsResponse(c, "list", l)
  \/ \E c \in DOMAIN recCalls : \E k \in {"fail", "missing"} : RecommendationsResponse(c, k, <<>>)
  \/ StartOver

\* The genre screen of GenreSelection.jsx within the flow, the cards being
\* answered with the buttons only.
SpecGenres == InitGenres /\ [][NextGenres]_vars

NextAudio ==
  \/ SubmitRegistration
  \/ \E sid \in SessionIds : RegistrationResponse(sid)
  \/ SubmitGenres
  \/ \E c \in DOMAIN startCalls : \E q \in Queues : StartResponse(c, TRUE, q)
  \/ \E d \in {"like", "dislike"} : ClickButton(d)
  \/ \E a \in DOMAIN anims : \E throws \in BOOLEAN : AnimationSettles(a, throws)
  \/ \E c \in DOMAIN swipeCalls : \E outcome \in SwipeOutcomes : SwipeResponse(c, outcome)
  \/ \E c \in DOMAIN detailCalls : \E ok, hasImage, hasPreview \in BOOLEAN :
       DetailResponse(c, ok, hasImage, hasPreview)
  \/ \E resolved \in BOOLEAN : CanPlay(resolved)
  \/ CardEnded
  \/ \E resolved \in BOOLEAN : cardTogglePlay(resolved)
  \/ \E stale \in BOOLEAN : FadeTick(stale)

\* The active card with its card-detail call and its preview player, the
\* cards being answered with the buttons; what follows the last card is not
\* followed.
SpecAudio == InitAudio /\ [][NextAudio]_vars

NextPlayer ==
  \/ SubmitRegistration
  \/ \E sid \in SessionIds : RegistrationResponse(sid)
  \/ SubmitGenres
  \/ \E c \in DOMAIN startCalls : \E q \in Queues \ {<<>>} : StartResponse(c, TRUE, q)
  \/ ClickButton("like")
  \/ \E a \in DOMAIN anims : \E throws \in BOOLEAN : AnimationSettles(a, throws)
  \/ \E c \in DOMAIN swipeCalls : \E outcome \in SwipeOutcomes : SwipeResponse(c, outcome)
  \/ \E c \in DOMAIN detailCalls : \E ok, hasPreview \in BOOLEAN :
       DetailResponse(c, ok, TRUE, hasPreview)
  \/ \E resolved \in BOOLEAN : CanPlay(resolved)
  \/ CardEnded
  \/ \E resolved \in BOOLEAN : cardTogglePlay(resolved)
  \/ \E stale \in BOOLEAN : FadeTick(stale)

\* The preview player of the active card by itself: every step that touches
\* the player (attach, release, song change, canplay, ended, play button,
\* fade-out ticks), with whatever brings those about taken in one form only:
\* a queue with a card, the Like button, a detail response with an image.
SpecPlayer == InitAudio /\ [][NextPlayer]_vars

\* -------------------------------------------------------------- claims

RestartState ==
  /\ step = "genres"
  /\ sessionId = Null
  /\ songs = <<>>
  /\ currentSongIndex = 0
  /\ recommendations = <<>>

\* The step just taken ran handleRestart.
Restarted(e) ==
  \/ e.kind = "restart"
  \/ e.kind = "recommendations" /\ e.result \in {"fail", "missing", "empty", "nosession"}

\* Swipe-commit requests in flight for the candidate at cursor i of the
\* current queue.
CommitsInFlight(i) ==
  BagCardinality([c \in {x \in DOMAIN swipeCalls : x.cur /\ x.idx = i} |-> swipeCalls[c]])

\* C1: for every queue, handleSwipe sets step 'loading' and schedules
\* getRecommendations at most once, whatever the interleaving of triggers and
\* responses.
C1_LoadingOncePerQueue == loadingCount <= 1

\* C2: a restart (Start Over, or a failed recommendations fetch) sets step to
\* genres, clears songs, currentSongIndex and recommendations, and leaves
\* sessionId at the value registration returned.
C2_RestartKeepsSession ==
  [][Restarted(lastEvent') =>
       /\ step' = "genres"
       /\ songs' = <<>>
       /\ currentSongIndex' = 0
       /\ recommendations' = <<>>
       /\ sessionId' = sessionId
       /\ sessionId' \in SessionIds]_vars

\* C3: a card-detail response for a track that is not the active candidate's
\* changes neither albumImage nor previewUrl of the mounted card.
C3_StaleDetailDiscarded ==
  [][(/\ lastEvent'.kind = "detail"
      /\ CardMounted(step, songs, currentSongIndex)
      /\ lastEvent'.data # <<ActiveTrack(songs, currentSongIndex)>>)
     => (albumImage' = albumImage /\ previewUrl' = previewUrl)]_vars

\* C4: at any time at most one swipe-commit request is in flight for a
\* candidate of the current queue.
C4_OneCommitInFlight == \A i \in 0..MaxLen : CommitsInFlight(i) <= 1

\* C5: at most one audio element is playing at any time.
C5_OneAudioPlaying == Cardinality({r \in Rows : rowAudio[r] = "playing"}) <= 1

\* C6, as claimed: after a failed swipe-commit call the cursor is one greater
\* than before it.
C6_FailedCommitAdvances ==
  [][(lastEvent'.kind = "swipe" /\ lastEvent'.result = "fail")
     => currentSongIndex' = currentSongIndex + 1]_vars

\* C6, amended: a failed swipe-commit call is reported to the user and leaves
\* the cursor, the step and the queue as they were: the cursor is not advanced.
C6_FailedCommitKeepsCursor ==
  [][(lastEvent'.kind = "swipe" /\ lastEvent'.result = "fail")
     => /\ lastEvent'.alert = "Error recording your choice"
        /\ currentSongIndex' = currentSongIndex
        /\ step' = step
        /\ songs' = songs]_vars

\* A swipe-commit call for the active candidate has just failed, and that
\* candidate is still the active card.
C6_Witness ==
  /\ lastEvent.kind = "swipe"
  /\ lastEvent.result = "fail"
  /\ lastEvent.alert # ""
  /\ CardMounted(step, songs, currentSongIndex)
  /\ lastEvent.data = <<currentSongIndex>>

\* C7: a recommendations response with an empty or missing list leaves the
\* state a failed recommendations fetch leaves (the restart state: step genres,
\* everything cleared), and the step does not become recommendations.
C7_EmptyRecsLikeFailure ==
  (lastEvent.kind = "recommendations" /\ lastEvent.result \in {"fail", "missing", "empty"})
  => (RestartState /\ lastEvent.alert # "")

\* The backend has just answered the recommendations call with an empty list.
C7_Witness ==
  /\ lastEvent.kind = "recommendations"
  /\ lastEvent.result = "empty"
  /\ step = "genres"

\* C8: while a commit animation of the mounted card is in progress no second
\* one starts, whichever entry point the trigger comes from: one animation,
\* hence one onSwipe call, per burst of triggers.
C8_SecondTriggerIgnored ==
  /\ LiveAnimCount <= 1
  /\ extraTrigger => (LiveAnimCount = 1 /\ isAnimating)

\* A second trigger was fired while the commit animation was in progress.
C8_Witness == extraTrigger /\ LiveAnimCount = 1

\* C9: right after a successful start-session response, songs is the returned
\* queue and currentSongIndex is 0.
C9_StartResetsCursor ==
  (lastEvent.kind = "start" /\ lastEvent.result = "ok")
  => (songs = lastEvent.data /\ currentSongIndex = 0)

\* C10: between a successful genre submit and the next restart the queue does
\* not change and the cursor does not decrease, and the cursor is always
\* between 0 and the length of the queue.
C10_QueueFixedCursorMonotone ==
  /\ [](0 <= currentSongIndex /\ currentSongIndex <= Len(songs))
  /\ [][(step \in {"swiping", "loading", "recommendations"} /\ step' # "genres")
        => (songs' = songs /\ currentSongIndex' >= currentSongIndex)]_vars

\* C11: every change of step is one of registration->genres, genres->swiping,
\* swiping->loading, loading->recommendations, loading->genres and
\* recommendations->genres.
C11_OnlyAllowedStepChanges ==
  [][step' # step =>
       <<step, step'>> \in
         { <<"registration", "genres">>, <<"genres", "swiping">>,
           <<"swiping", "loading">>, <<"loading", "recommendations">>,
           <<"loading", "genres">>, <<"recommendations", "genres">> }]_vars

\* C12: every start-session, swipe-commit and recommendations request (and the
\* timer that will issue one) carries a session id that registration returned.
C12_RequestsCarrySession ==
  /\ \A c \in DOMAIN startCalls : c.sid \in SessionIds
  /\ \A c \in DOMAIN swipeCalls : c.sid \in SessionIds
  /\ \A c \in DOMAIN recCalls : c.sid \in SessionIds

\* C17: every swipe-commit request the backend accepts advances the cursor by
\* exactly one, and while the cursor is still inside the queue the step stays
\* swiping.
C17_AcceptedCommitAdvancesByOne ==
  [][(lastEvent'.kind = "swipe" /\ lastEvent'.result = "ok")
     => /\ currentSongIndex' = currentSongIndex + 1
        /\ currentSongIndex' < Len(songs') => (step = "swiping" /\ step' = "swiping")]_vars

\* C18: no swipe-commit request is issued while a start-session request is in
\* flight, and no start-session request is issued while another is in flight.
C18_NoRequestDuringStart ==
  [][(\/ BagCardinality(swipeCalls') > BagCardinality(swipeCalls)
      \/ BagCardinality(startCalls') > BagCardinality(startCalls))
     => startCalls = EmptyBag]_vars

\* C13: a failed registration, start-session or swipe-commit call is reported
\* to the user and leaves step, sessionId, songs, the cursor and the
\* recommendations as they were.
C13_FailedCallKeepsState ==
  [][(lastEvent'.kind \in {"registration", "start", "swipe"} /\ lastEvent'.result = "fail")
     => /\ lastEvent'.alert # ""
        /\ step' = step
        /\ sessionId' = sessionId
        /\ songs' = songs
        /\ currentSongIndex' = currentSongIndex
        /\ recommendations' = recommendations]_vars

\* A start-session call has just failed and the genre screen is still shown
\* with the session of the registration.
C13_Witness ==
  /\ lastEvent.kind = "start"
  /\ lastEvent.result = "fail"
  /\ lastEvent.alert # ""
  /\ step = "genres"
  /\ sessionId \in SessionIds

\* C14: whenever step is recommendations the list is non-empty, and the list
\* shown on that screen is only ever set by a successful recommendations
\* response, to the list that response returned, in the order returned.
C14_RecommendationsAsReturned ==
  /\ [](step = "recommendations" => Len(recommendations) > 0)
  /\ [][(step' = "recommendations"
         /\ (step # "recommendations" \/ recommendations' # recommendations))
        => /\ lastEvent'.kind = "recommendations"
           /\ lastEvent'.result = "ok"
           /\ recommendations' = lastEvent'.data]_vars

\* The recommendations screen shows a list of two entries that the backend has
\* just returned in descending order of track id.
C14_Witness ==
  /\ step = "recommendations"
  /\ lastEvent.kind = "recommendations"
  /\ lastEvent.result = "ok"
  /\ Len(recommendations) = 2
  /\ recommendations[1] > recommendations[2]

\* C15, as claimed: a drag release with |offset.x| <= 100 starts no commit
\* animation, sends no swipe-commit request, and always leaves the card at
\* x = 0, rotate = 0.
C15_SmallReleaseAlwaysRests ==
  [][(\E o \in Offsets : 0 - SwipeThreshold <= o /\ o <= SwipeThreshold /\ onDragEnd(o))
     => /\ anims' = anims
        /\ swipeCalls' = swipeCalls
        /\ pose' = "rest"]_vars

\* C15, amended: a drag release with |offset.x| <= 100 starts no commit
\* animation and sends no swipe-commit request; when no commit animation is in
\* progress it returns the card to x = 0, rotate = 0, and when one is in
\* progress the release is ignored and the pose is left to that animation.
C15_SmallReleaseNeverCommits ==
  [][(\E o \in Offsets : 0 - SwipeThreshold <= o /\ o <= SwipeThreshold /\ onDragEnd(o))
     => /\ anims' = anims
        /\ swipeCalls' = swipeCalls
        /\ isAnimating' = isAnimating
        /\ pose' = (IF isAnimating THEN pose ELSE "rest")]_vars

\* A drag of the active card has just been released without committing, and
\* the card is back at rest with no commit under way.
C15_Witness ==
  /\ lastEvent.kind = "release"
  /\ CardMounted(step, songs, currentSongIndex)
  /\ pose = "rest"
  /\ ~isDragging
  /\ ~isAnimating
  /\ anims = EmptyBag
  /\ swipeCalls = EmptyBag

\* C16: the selected set never holds more than 5 genres; a toggle removes a
\* selected genre, adds an unselected one while fewer than 5 are selected and
\* changes nothing when 5 are; and every start-session call is issued with
\* between 1 and 5 genres.
C16_OneToFiveGenres ==
  /\ [](Cardinality(selectedGenres) <= MaxSelected)
  /\ [](lastEvent.kind = "submit"
          => (1 <= lastEvent.data[1] /\ lastEvent.data[1] <= MaxSelected))
  /\ [][\A g \in Genres : toggleGenre(g) =>
          /\ g \in selectedGenres => selectedGenres' = selectedGenres \ {g}
          /\ (g \notin selectedGenres /\ Cardinality(selectedGenres) = MaxSelected)
               => selectedGenres' = selectedGenres
          /\ (g \notin selectedGenres /\ Cardinality(selectedGenres) < MaxSelected)
               => selectedGenres' = selectedGenres \cup {g}]_vars

\* A start-session call has just been issued with five genres selected, one
\* genre being left out.
C16_Witness ==
  /\ lastEvent.kind = "submit"
  /\ lastEvent.data = <<MaxSelected>>
  /\ Cardinality(selectedGenres) = MaxSelected
  /\ selectedGenres # Genres
  /\ startCalls # EmptyBag

\* The card-detail request of the active candidate is no longer in flight.
ActiveDetailSettled ==
  \A c \in DOMAIN detailCalls :
    ~(c.live /\ c.track = ActiveTrack(songs, currentSongIndex))

\* C19: when the card-detail response for the active candidate is a failure,
\* or a success with neither image nor preview, the card has albumImage = null
\* and previewUrl = null and keeps them for as long as it is the active card;
\* a like or dislike on a card without art and preview still starts its
\* commit, whose request is sent when the animation ends and whose acceptance
\* moves the cursor on by one.
C19_NoMediaCardStillCommits ==
  /\ [][\A c \in DOMAIN detailCalls : \A ok, hasImage, hasPreview \in BOOLEAN :
          (/\ DetailResponse(c, ok, hasImage, hasPreview)
           /\ c.live
           /\ CardMounted(step, songs, currentSongIndex)
           /\ c.track = ActiveTrack(songs, currentSongIndex)
           /\ ~ok \/ (~hasImage /\ ~hasPreview))
          => (albumImage' = NoMedia /\ previewUrl' = NoMedia)]_vars
  /\ [][(/\ lastEvent.kind = "detail"
         /\ CardMounted(step, songs, currentSongIndex)
         /\ lastEvent.data = <<ActiveTrack(songs, currentSongIndex)>>
         /\ ActiveDetailSettled
         /\ albumImage = NoMedia /\ previewUrl = NoMedia
         /\ step' = step /\ songs' = songs /\ currentSongIndex' = currentSongIndex)
        => (albumImage' = NoMedia /\ previewUrl' = NoMedia)]_vars
  /\ [][\A d \in {"like", "dislike"} :
          (/\ ClickButton(d)
           /\ ~isAnimating
           /\ albumImage = NoMedia /\ previewUrl = NoMedia)
          => \E a \in DOMAIN anims' :
               /\ CopiesIn(a, anims') = CopiesIn(a, anims) + 1
               /\ a.track = ActiveTrack(songs, currentSongIndex)
               /\ a.liked = (d = "like")]_vars
  /\ [][\A a \in DOMAIN anims :
          (AnimationSettles(a, FALSE) /\ albumImage = NoMedia /\ previewUrl = NoMedia)
          => \E c \in DOMAIN swipeCalls' :
               /\ CopiesIn(c, swipeCalls') = CopiesIn(c, swipeCalls) + 1
               /\ c.track = a.track]_vars
  /\ [][\A c \in DOMAIN swipeCalls :
          (/\ SwipeResponse(c, "ok")
           /\ c.idx = currentSongIndex
           /\ albumImage = NoMedia /\ previewUrl = NoMedia)
          => currentSongIndex' = currentSongIndex + 1]_vars

\* The step started the commit a: one more animation holding a is running.
CommitStarted(a) == CopiesIn(a, anims') = CopiesIn(a, anims) + 1

\* The step started exactly one commit, of the active card, for the current
\* session and with the decision liked.
StartsCommit(liked) ==
  \E a \in DOMAIN anims' :
    /\ CommitStarted(a)
    /\ BagCardinality(anims') = BagCardinality(anims) + 1
    /\ a.sid = sessionId
    /\ a.track = ActiveTrack(songs, currentSongIndex)
    /\ a.liked = liked

\* C20, the triggers: the like button, ArrowRight and a release beyond the
\* threshold with offset > 0 commit the active card as liked; the dislike
\* button, ArrowLeft and a release beyond the threshold with offset < 0 commit
\* it as not liked.
C20_TriggerDecides ==
  /\ [][\A d \in {"like", "dislike"} :
          (ClickButton(d) /\ ~isAnimating) => StartsCommit(d = "like")]_vars
  /\ [][\A k \in {"ArrowLeft", "ArrowRight"} :
          (handleKeyDown(k) /\ ~isDragging /\ ~isAnimating)
          => StartsCommit(k = "ArrowRight")]_vars
  /\ [][\A o \in Offsets :
          (/\ onDragEnd(o)
           /\ ~isAnimating
           /\ o > SwipeThreshold \/ o < 0 - SwipeThreshold)
          => StartsCommit(o > 0)]_vars

\* C20: every swipe-commit request carries the current session id, the track
\* id of the card that was active when its trigger committed and the decision
\* of that trigger.
C20_RequestCarriesCommit ==
  /\ C20_TriggerDecides
  /\ [][\A a \in DOMAIN anims : AnimationSettles(a, FALSE) =>
          \A c \in DOMAIN swipeCalls' :
            CopiesIn(c, swipeCalls') > CopiesIn(c, swipeCalls)
            => (c.sid = sessionId /\ c.track = a.track /\ c.liked = a.liked)]_vars

\* C22: whenever step is swiping the cursor is inside the queue, so that an
\* active card is shown and a commit is possible.
C22_SwipingHasCard == step = "swiping" => currentSongIndex < Len(songs)

\* C25: in a commit, the card is put back at x = 0, rotate = 0 and isAnimating
\* is cleared only when the swipe-commit call made by onSwipe has completed:
\* the step that ends the commit animation of the mounted card does not leave
\* the recognizer open with the request it has just sent still in flight.
C25_ResetAfterCommitCompletes ==
  [][\A a \in DOMAIN anims :
       (AnimationSettles(a, FALSE) /\ a.live)
       => ~(/\ ~isAnimating'
            /\ pose' = "rest"
            /\ \E c \in DOMAIN swipeCalls' :
                 CopiesIn(c, swipeCalls') > CopiesIn(c, swipeCalls))]_vars

\* C28: isDragging is true only while a drag gesture is in progress.
C28_DraggingOnlyDuringDrag == isDragging => dragActive

\* C29: when the commit animation of the mounted card throws, no swipe-commit
\* request is sent, the card is put back at x = 0, rotate = 0, isAnimating is
\* false, and isDragging is false unless a drag gesture is still in progress.
C29_ThrownAnimationResets ==
  [][\A a \in DOMAIN anims :
       (AnimationSettles(a, TRUE) /\ a.live)
       => /\ swipeCalls' = swipeCalls
          /\ pose' = "rest"
          /\ ~isAnimating'
          /\ isDragging' => dragActive']_vars

\* -------------------------------------------------------------- liveness

\* What happens without the user: a response arrives, a timer fires, an
\* animation settles.
SystemStep ==
  \/ \E sid \in SessionIds \cup {Null} : RegistrationResponse(sid)
  \/ \E c \in DOMAIN startCalls : \E q \in Queues : StartResponse(c, TRUE, q)
  \/ \E c \in DOMAIN startCalls : StartResponse(c, FALSE, <<>>)
  \/ \E a \in DOMAIN anims : \E throws \in BOOLEAN : AnimationSettles(a, throws)
  \/ \E c \in DOMAIN swipeCalls : \E outcome \in SwipeOutcomes : SwipeResponse(c, outcome)
  \/ \E t \in DOMAIN recTimers : TimerFires(t)
  \/ \E c \in DOMAIN recCalls : \E l \in RecLists : RecommendationsResponse(c, "list", l)
  \/ \E c \in DOMAIN recCalls : \E k \in {"fail", "missing"} : RecommendationsResponse(c, k, <<>>)

\* The flow in which everything in flight completes: the backend answers every
\* call, timers fire and animations settle.  The user is free to do nothing.
SpecLive == Init /\ [][Next]_vars /\ WF_vars(SystemStep)

\* C27: after a swipe-commit call of the active card has failed and the card
\* stays active with its loading spinner on, isSwipeLoading eventually returns
\* to false.
C27_SpinnerClearsAfterFailure ==
  (/\ lastEvent.kind = "swipe"
   /\ lastEvent.result = "fail"
   /\ CardMounted(step, songs, currentSongIndex)
   /\ lastEvent.data = <<currentSongIndex>>
   /\ isSwipeLoading)
  ~> ~isSwipeLoading

\* The flow of a user who goes on and a backend that succeeds: registration
\* returns a session id, start-session a non-empty queue, every swipe-commit
\* call is accepted, recommendations come back as a non-empty list, the
\* animations resolve, and the user answers the cards with the buttons.
NextHappy ==
  \/ SubmitRegistration
  \/ \E sid \in SessionIds : RegistrationResponse(sid)
  \/ SubmitGenres
  \/ \E c \in DOMAIN startCalls : \E q \in Queues \ {<<>>} : StartResponse(c, TRUE, q)
  \/ \E d \in {"like", "dislike"} : ClickButton(d)
  \/ \E a \in DOMAIN anims : AnimationSettles(a, FALSE)
  \/ \E c \in DOMAIN swipeCalls : SwipeResponse(c, "ok")
  \/ \E t \in DOMAIN recTimers : TimerFires(t)
  \/ \E c \in DOMAIN recCalls : \E l \in RecLists \ {<<>>} : RecommendationsResponse(c, "list", l)
  \/ StartOver

\* The user's part of NextHappy that moves the flow on: submitting the
\* genres and committing the active card.
UserGoesOn ==
  \/ SubmitGenres
  \/ \E d \in {"like", "dislike"} : ClickButton(d)

\* What completes without the user in NextHappy.
HappyStep ==
  \/ \E sid \in SessionIds : RegistrationResponse(sid)
  \/ \E c \in DOMAIN startCalls : \E q \in Queues \ {<<>>} : StartResponse(c, TRUE, q)
  \/ \E a \in DOMAIN anims : AnimationSettles(a, FALSE)
  \/ \E c \in DOMAIN swipeCalls : SwipeResponse(c, "ok")
  \/ \E t \in DOMAIN recTimers : TimerFires(t)
  \/ \E c \in DOMAIN recCalls : \E l \in RecLists \ {<<>>} : RecommendationsResponse(c, "list", l)

SpecHappy ==
  Init /\ [][NextHappy]_vars /\ WF_vars(HappyStep) /\ WF_vars(UserGoesOn)

\* C21: after a restart, with the user submitting genres and committing every
\* card and every backend call succeeding, the flow reaches the
\* recommendations step again, and no 'No active session' failure sends it
\* back to the genre screen.
C21_RestartedFlowReachesRecommendations ==
  /\ (step = "genres" /\ Restarted(lastEvent)) ~> step = "recommendations"
  /\ [](lastEvent.result # "nosession")

\* C24: when the active candidate changes, nothing of the previous candidate's
\* media is left on the card: albumImage and previewUrl are null and
\* imageLoaded is false before the new card-detail response arrives.
C24_MediaClearedOnNewCard ==
  [][(/\ CardMounted(step, songs, currentSongIndex)
      /\ CardMounted(step', songs', currentSongIndex')
      /\ ActiveTrack(songs', currentSongIndex') # ActiveTrack(songs, currentSongIndex))
     => (albumImage' = NoMedia /\ previewUrl' = NoMedia /\ ~imageLoaded')]_vars

\* C23: when the preview of the active card reaches its end it starts again
\* from the beginning and goes on playing without any user action; when the
\* audio of a row of the recommendations list reaches its end the row stops
\* and currentlyPlaying becomes null.
C23_CardPreviewLoops ==
  /\ [][CardEnded => cardAudio' = "playing"]_vars
  /\ [][\A r \in Rows : RowEnded(r) =>
          (rowAudio'[r] = "paused" /\ currentlyPlaying' = NoMedia)]_vars

\* C26: attaching a new preview ends a fade-out in progress: no tick of a
\* fade-out started before the preview was attached lowers its volume or
\* pauses it, and no tick of a fade-out runs with no audio element to act on.
C26_AttachPreemptsFade ==
  /\ [][(FadeTick(TRUE) /\ cardAudio # "none")
        => (volume' = volume /\ cardAudio' = cardAudio)]_vars
  /\ [][(\E stale \in BOOLEAN : FadeTick(stale)) => cardAudio # "none"]_vars

\* C30: togglePlay on the active card acts only with a preview attached, and
\* then it flips what is heard: a paused audio starts playing, a playing
\* audio pauses, and isPlaying agrees with the audio element afterwards.
\* Stated for a preview whose autoplay is not pending any more.
C30_ToggleFlipsAudibleState ==
  [][(cardTogglePlay(TRUE) /\ ~canplay)
       => /\ AudioRendered(previewUrl)
          /\ cardAudio' = (IF cardAudio = "playing" THEN "paused" ELSE "playing")
          /\ isPlaying' = (cardAudio' = "playing")]_vars

\* The autoplay attempt on the attached preview has just been rejected.
AutoplayRejected == lastEvent = Event("canplay", "fail", <<>>)

\* C31: when play() of the autoplay attempt is rejected, the player of the
\* active card settles paused, with isPlaying and isLoading false, no
\* alert, and step, cursor and queue as they were; the play button is there
\* to be pressed then, and pressing it while isPlaying is false starts the
\* preview.
C31_RejectedAutoplaySettlesPaused ==
  /\ [][CanPlay(FALSE)
        => /\ cardAudio' = "paused"
           /\ ~isPlaying'
           /\ ~isLoading'
           /\ lastEvent'.alert = ""
           /\ UNCHANGED <<step, currentSongIndex, songs>>]_vars
  /\ [](AutoplayRejected => ENABLED cardTogglePlay(TRUE))
  /\ [][(cardTogglePlay(TRUE) /\ ~isPlaying)
        => (cardAudio' = "playing" /\ isPlaying')]_vars

\* The autoplay attempt was rejected and the player has settled.
C31_Witness ==
  /\ AutoplayRejected
  /\ cardAudio = "paused"
  /\ ~isPlaying
  /\ ~isLoading

====
